---- MODULE Spec2Model ----
(***************************************************************************)
(* Voice-to-summary app (src/app.py): the Streamlit script as a state      *)
(* machine.  Every browser session runs the script top to bottom (one      *)
(* "script run"); all sessions share the working directory and the clock.  *)
(* A script run is cut into steps at its system calls and service calls,   *)
(* so that runs of different sessions interleave the way processes do.     *)
(***************************************************************************)
EXTENDS Integers, Sequences, FiniteSets, TLC

(* ------------------------------ bounds -------------------------------- *)

\* clock resolution: datetime.now() readings per formatted second
TicksPerSecond == 2
\* how many small clock advances a behaviour may contain
MaxTicks == 2
\* script runs started in one behaviour with a single session connected
MaxRuns == 3
\* script runs started in one behaviour with two sessions connected
MaxSharedRuns == 2
\* length of the transcript of the short recording
ShortLen == 2
\* largest max_age (in days) the retention sweep is called with
MaxDays == 2
\* text patterns the summarization check draws from
MaxSeed == 7

(* ------------------------- program constants -------------------------- *)

DefaultDays == 2
TruncateLen == 1000
PreviewLen == 150
SecondsPerDay == 86400

TicksPerDay == SecondsPerDay * TicksPerSecond

Sessions == {1, 2}

\* the recordings a user may upload
Recordings == {1, 2}

\* the clock reading at the start of a behaviour
Now0 == (MaxDays + 3) * TicksPerDay

NoPath == <<>>

(* ------------------------------- text --------------------------------- *)

\* code points: a, space, e-acute, euro sign
Alphabet == <<97, 32, 233, 8364>>

\* pattern `seed': the alphabet in runs of seed + 1 equal characters
CharAt(seed, i) == Alphabet[(((i \div (seed + 1)) + seed) % Len(Alphabet)) + 1]

Text(n, seed) == [i \in 1..n |-> CharAt(seed, i)]

Min(a, b) == IF a < b THEN a ELSE b

\* text[:n]
Prefix(text, n) == SubSeq(text, 1, Min(Len(text), n))

(* ---------------------------- file system ----------------------------- *)

NoTs == -1

\* a path component: prefix, formatted timestamp (or NoTs), extension
Name(prefix, ts, ext) == [prefix |-> prefix, ts |-> ts, ext |-> ext]

AudioDir == <<Name("outputs/audio", NoTs, <<>>)>>
PdfDir == <<Name("outputs/pdf", NoTs, <<>>)>>
LogsDir == <<Name("outputs/logs", NoTs, <<>>)>>

\* os.path.join(folder, filename)
Join(dir, filename) == Append(dir, filename)

\* os.path.basename(path)
Basename(p) == p[Len(p)]

Dirname(p) == SubSeq(p, 1, Len(p) - 1)

File(mtime, content) == [kind |-> "file", mtime |-> mtime, content |-> content]
Directory(mtime) == [kind |-> "dir", mtime |-> mtime, content |-> <<>>]

\* os.listdir(folder): the names of the direct children
Listdir(files, dir) == {Basename(p) : p \in {q \in DOMAIN files : Dirname(q) = dir}}

\* os.path.isfile(path)
IsFile(files, p) == p \in DOMAIN files /\ files[p].kind = "file"

\* os.path.exists(path)
Exists(files, p) == p \in DOMAIN files

\* open(path, "wb").write(content) / FPDF.output(path): create or overwrite
WriteFile(files, p, node) == [q \in DOMAIN files \cup {p} |-> IF q = p THEN node ELSE files[q]]

\* os.remove(path)
RemoveFile(files, p) == [q \in DOMAIN files \ {p} |-> files[q]]

\* the format string, mutated: the seconds field is missing ('%Y-%m-%d_%H-%M')
StrftimeMinutes(t) == t \div (TicksPerSecond * 60)

\* datetime.now().strftime('%Y-%m-%d_%H-%M-%S'): the reading cut to whole seconds
Strftime(t) == t \div TicksPerSecond

VARIABLES
    now,                \* the wall clock, in ticks
    fs,                 \* path -> node, the shared working directory
    active,             \* the sessions connected to the server
    runs,               \* script runs started so far
    pc,                 \* per session: position in the script
    uploaded_file,      \* per session: None or [name, data]
    button,             \* per session: the export button is on the page
    clicked,            \* per session: the export button was pressed for this run
    days,               \* per session: cleanup_old_files' days argument
    folder,             \* per session: cleanup_old_files' folder argument
    cutoff,             \* per session: cleanup_old_files' cutoff
    pending,            \* per session: names of the listing not yet visited
    path,               \* per session: the path the sweep is looking at
    audio_path,         \* per session
    file_to_transcribe, \* per session
    transcript,         \* per session
    summary,            \* per session
    pdf_path,           \* per session
    steps,              \* per session: what this script run has done, in order
    errors,             \* per session: the st.error messages of this run
    displayed,          \* per session: what display_logs showed in this run
    summarizerArg,      \* per session: the text handed to the summarizer
    fsAtCall,           \* per session: fs when the running sweep listed its folder
    removed,            \* per session: paths the running sweep has removed
    writes,             \* every artifact write so far: [cat, at, path]
    logged              \* log_entry calls so far

sweepVars == <<days, folder, cutoff, pending, path, fsAtCall, removed>>
runVars == <<uploaded_file, button, clicked, audio_path, file_to_transcribe, transcript,
             summary, pdf_path, errors, displayed, summarizerArg>>
vars == <<now, fs, active, runs, pc, steps, writes, logged, sweepVars, runVars>>

(* --------------------- cleanup_old_files (21-28) ---------------------- *)

\* line 22: cutoff = datetime.now() - timedelta(days=days)
Cutoff(t, d) == t - d * TicksPerDay

\* line 27, mutated: <= instead of <
ExpiredInclusive(mtime, c) == mtime <= c

\* line 27: mod_time < cutoff
Expired(mtime, c) == mtime < c

\* lines 22-23: the call; the cutoff is computed and the folder listed
CleanupCall(s) ==
    /\ pc[s] \in {"cleanup_audio", "cleanup_pdf"}
    /\ LET dir == IF pc[s] = "cleanup_audio" THEN AudioDir ELSE PdfDir IN
        /\ folder' = [folder EXCEPT ![s] = dir]
        /\ pending' = [pending EXCEPT ![s] = Listdir(fs, dir)]
    /\ cutoff' = [cutoff EXCEPT ![s] = Cutoff(now, days[s])]
    /\ fsAtCall' = [fsAtCall EXCEPT ![s] = fs]
    /\ removed' = [removed EXCEPT ![s] = {}]
    /\ pc' = [pc EXCEPT ![s] = "for"]
    /\ steps' = [steps EXCEPT ![s] = Append(@, "cleanup")]
    /\ UNCHANGED <<now, fs, active, runs, writes, logged, days, path, runVars>>

\* lines 23-25: the next filename of the listing; os.path.isfile decides
SweepIsFile(s) ==
    /\ pc[s] = "for"
    /\ \E filename \in pending[s] :
        /\ pending' = [pending EXCEPT ![s] = @ \ {filename}]
        /\ path' = [path EXCEPT ![s] = Join(folder[s], filename)]
        /\ pc' = [pc EXCEPT ![s] =
                    IF IsFile(fs, Join(folder[s], filename)) THEN "getmtime" ELSE "for"]
    /\ UNCHANGED <<now, fs, active, runs, steps, writes, logged, days, folder, cutoff,
                   fsAtCall, removed, runVars>>

\* lines 26-27: os.path.getmtime and the comparison with the cutoff
SweepGetmtime(s) ==
    /\ pc[s] = "getmtime"
    /\ Exists(fs, path[s])
    /\ pc' = [pc EXCEPT ![s] =
                IF Expired(fs[path[s]].mtime, cutoff[s]) THEN "remove" ELSE "for"]
    /\ UNCHANGED <<now, fs, active, runs, steps, writes, logged, sweepVars, runVars>>

\* line 26: the file is gone, os.path.getmtime raises; nothing catches it
SweepGetmtimeRaises(s) ==
    /\ pc[s] = "getmtime"
    /\ ~Exists(fs, path[s])
    /\ pc' = [pc EXCEPT ![s] = "crashed"]
    /\ UNCHANGED <<now, fs, active, runs, steps, writes, logged, sweepVars, runVars>>

\* line 28: os.remove
SweepRemove(s) ==
    /\ pc[s] = "remove"
    /\ Exists(fs, path[s])
    /\ fs' = RemoveFile(fs, path[s])
    /\ removed' = [removed EXCEPT ![s] = @ \cup {path[s]}]
    /\ pc' = [pc EXCEPT ![s] = "for"]
    /\ UNCHANGED <<now, active, runs, steps, writes, logged, days, folder, cutoff, pending,
                   path, fsAtCall, runVars>>

\* line 28: the file is gone, os.remove raises; nothing catches it
SweepRemoveRaises(s) ==
    /\ pc[s] = "remove"
    /\ ~Exists(fs, path[s])
    /\ pc' = [pc EXCEPT ![s] = "crashed"]
    /\ UNCHANGED <<now, fs, active, runs, steps, writes, logged, sweepVars, runVars>>

\* the listing is exhausted: cleanup_old_files returns
SweepReturn(s) ==
    /\ pc[s] = "for"
    /\ pending[s] = {}
    /\ pc' = [pc EXCEPT ![s] = "returned"]
    /\ UNCHANGED <<now, fs, active, runs, steps, writes, logged, sweepVars, runVars>>

\* lines 30-31, then 107: what follows the call that returned
AfterCleanup(s) ==
    /\ pc[s] = "returned"
    /\ pc' = [pc EXCEPT ![s] = IF folder[s] = AudioDir THEN "cleanup_pdf" ELSE "uploader"]
    /\ folder' = [folder EXCEPT ![s] = NoPath]
    /\ cutoff' = [cutoff EXCEPT ![s] = 0]
    /\ pending' = [pending EXCEPT ![s] = {}]
    /\ path' = [path EXCEPT ![s] = NoPath]
    /\ fsAtCall' = [fsAtCall EXCEPT ![s] = <<>>]
    /\ removed' = [removed EXCEPT ![s] = {}]
    /\ UNCHANGED <<now, fs, active, runs, steps, writes, logged, days, runVars>>

Sweep(s) ==
    \/ CleanupCall(s)
    \/ SweepIsFile(s)
    \/ SweepGetmtime(s)
    \/ SweepGetmtimeRaises(s)
    \/ SweepRemove(s)
    \/ SweepRemoveRaises(s)
    \/ SweepReturn(s)
    \/ AfterCleanup(s)

(* ----------------------- external collaborators ----------------------- *)

\* the bytes of an upload, a stored audio file or a converted one
Audio(enc, rec) == [enc |-> enc, audio |-> rec]

NoUpload == [name |-> <<>>, data |-> Audio("none", 0)]

\* file names the uploader accepts (type=["mp3", "wav", "m4a"], line 107)
FileNames ==
    { <<"a", ".", "w", "a", "v">>,
      <<"a", ".", "m", "p", "3">>,
      <<"a", ".", "m", "4", "a">>,
      <<"A", ".", "M", "P", "3">> }

Uploads == [name : FileNames, data : {Audio("upload", r) : r \in Recordings}]

\* what is said on a recording: recording 1 is short, the others are longer
\* than the summarizer's cap
RecordingLen(rec) == IF rec = 1 THEN ShortLen ELSE TruncateLen + rec

\* whisper's model.transcribe(file_path)['text'] (41-44): decided by the audio
TranscribeAudio(content) == Text(RecordingLen(content.audio), content.audio)

\* AudioSegment.from_mp3 / from_file(...).export(..., format="wav") (120-125)
ToWav(content) == Audio("wav", content.audio)

\* the summarization pipeline (line 50): deterministic (do_sample=False); an
\* injective stand-in, so that two inputs it is given are told apart
Summarizer(text) == <<Alphabet[1]>> \o text

(* -------------------------- string helpers ---------------------------- *)

\* name.endswith(suffix)
EndsWith(name, suffix) ==
    /\ Len(name) >= Len(suffix)
    /\ SubSeq(name, Len(name) - Len(suffix) + 1, Len(name)) = suffix

\* name.split('.')[-1]: what follows the last dot (the whole name without one)
SplitLast(name) ==
    LET dots == {i \in 1..Len(name) : name[i] = "."}
        last == IF dots = {} THEN 0 ELSE CHOOSE i \in dots : \A j \in dots : j <= i
    IN SubSeq(name, last + 1, Len(name))

Mp3 == <<".", "m", "p", "3">>
M4a == <<".", "m", "4", "a">>
Wav == <<"w", "a", "v">>
Pdf == <<"p", "d", "f">>

ConvertedPath == <<Name("converted", NoTs, Wav)>>
LogPath == Join(LogsDir, Name("activity_log", NoTs, <<"t", "x", "t">>))

(* ------------------------ summarize_text (47-51) ---------------------- *)

\* lines 48-49, mutated: the cut is one character short
TruncateShort(text) == IF Len(text) > TruncateLen THEN Prefix(text, TruncateLen - 1) ELSE text

\* lines 48-49: if len(text) > 1000: text = text[:1000]
Truncate(text) == IF Len(text) > TruncateLen THEN Prefix(text, TruncateLen) ELSE text

\* lines 47-51
summarize_text(text) == Summarizer(Truncate(text))

(* --------------------- export_summary_to_pdf (54-84) ------------------ *)

\* unicodedata.normalize("NFKD", c) on the alphabet: e-acute decomposes
Nfkd(c) == IF c = 233 THEN <<101, 769>> ELSE <<c>>

\* .encode("latin-1", "ignore").decode("latin-1")
Latin1Ignore(text) == SelectSeq(text, LAMBDA c : c <= 255)

\* both steps on text[lo..hi], one character at a time, halving the range
RECURSIVE NormalizeRange(_, _, _)
NormalizeRange(text, lo, hi) ==
    IF lo > hi THEN <<>>
    ELSE IF lo = hi THEN Latin1Ignore(Nfkd(text[lo]))
    ELSE LET mid == (lo + hi) \div 2
         IN NormalizeRange(text, lo, mid) \o NormalizeRange(text, mid + 1, hi)

\* lines 55-56
Normalize(text) == NormalizeRange(text, 1, Len(text))

\* lines 60-81: the document FPDF lays out
Render(summary_text, transcript_text, t) ==
    [title |-> "Voice Summary Report",
     generated |-> Strftime(t),
     summary |-> Normalize(summary_text),
     transcript |-> Normalize(transcript_text)]

\* lines 57-58
PdfPath(t) == Join(PdfDir, Name("summary_", Strftime(t), Pdf))

(* --------------------------- log_entry (87-91) ------------------------ *)

\* line 91, mutated: the preview is not cut
PreviewWhole(text) == text

\* line 91: summary[:150]
Preview(text) == Prefix(text, PreviewLen)

\* lines 90-91: the two lines and the blank line one call writes
LogLines(t, filename, text) ==
    << [at |-> Strftime(t), label |-> " - Generated: ", filename |-> filename],
       [label |-> "Summary Preview: ", preview |-> Preview(text), tail |-> "..."],
       [label |-> ""] >>

\* open(log_path, "a"): the file is created when it does not exist
AppendLog(files, t, lines) ==
    WriteFile(files, LogPath,
              File(t, IF Exists(files, LogPath) THEN files[LogPath].content \o lines
                      ELSE lines))

(* ------------------------- the script (103-152) ----------------------- *)

NoDisplay == [kind |-> "none", text |-> <<>>]

\* the locals of a script run, before the run has set them
FreshLocals(s) ==
    /\ audio_path' = [audio_path EXCEPT ![s] = NoPath]
    /\ file_to_transcribe' = [file_to_transcribe EXCEPT ![s] = NoPath]
    /\ pdf_path' = [pdf_path EXCEPT ![s] = NoPath]
    /\ transcript' = [transcript EXCEPT ![s] = <<>>]
    /\ summary' = [summary EXCEPT ![s] = <<>>]
    /\ summarizerArg' = [summarizerArg EXCEPT ![s] = <<>>]
    /\ errors' = [errors EXCEPT ![s] = <<>>]

\* a script run starts (any widget interaction reruns the script); it is the
\* press of the export button when that button was on the page.  Session 1 is
\* the first to connect.
StartRun(s) ==
    /\ s \in active
    /\ pc[s] \in {"idle", "done", "crashed"}
    /\ runs < (IF active = {1} THEN MaxRuns ELSE MaxSharedRuns)
    /\ s = 1 \/ runs > 0
    /\ runs' = runs + 1
    /\ \E click \in BOOLEAN :
        /\ click => button[s]
        /\ clicked' = [clicked EXCEPT ![s] = click]
    /\ button' = [button EXCEPT ![s] = FALSE]
    /\ displayed' = [displayed EXCEPT ![s] = NoDisplay]
    /\ pc' = [pc EXCEPT ![s] = "cleanup_audio"]
    /\ steps' = [steps EXCEPT ![s] = <<>>]
    /\ FreshLocals(s)
    /\ UNCHANGED <<now, fs, active, writes, logged, sweepVars, uploaded_file>>

\* line 107: the uploader's value for this run.  A press of the export button
\* leaves the uploader as it was; otherwise the user may have changed it.
Uploader(s, up) ==
    /\ pc[s] = "uploader"
    /\ clicked[s] => up = uploaded_file[s]
    /\ uploaded_file' = [uploaded_file EXCEPT ![s] = up]

\* line 109: nothing is uploaded
NoUploadedFile(s) ==
    /\ Uploader(s, NoUpload)
    /\ pc' = [pc EXCEPT ![s] = "display_logs"]
    /\ UNCHANGED <<now, fs, active, runs, steps, writes, logged, sweepVars, button, clicked,
                   audio_path, file_to_transcribe, transcript, summary, pdf_path,
                   errors, displayed, summarizerArg>>

\* lines 110-111, mutated: the name carries no timestamp
AudioPathFixed(t, name) == Join(AudioDir, Name("input_", NoTs, SplitLast(name)))

\* lines 110-111
AudioPath(t, name) == Join(AudioDir, Name("input_", Strftime(t), SplitLast(name)))

\* lines 109-114: the upload is written under outputs/audio
WriteUpload(s) ==
    /\ \E up \in Uploads :
        /\ Uploader(s, up)
        /\ LET p == AudioPath(now, up.name) IN
            /\ audio_path' = [audio_path EXCEPT ![s] = p]
            /\ fs' = WriteFile(fs, p, File(now, up.data))
            /\ writes' = writes \cup {[cat |-> "audio", at |-> now, path |-> p]}
    /\ steps' = [steps EXCEPT ![s] = Append(@, "write_upload")]
    /\ pc' = [pc EXCEPT ![s] = "convert"]
    /\ UNCHANGED <<now, active, runs, logged, sweepVars, button, clicked,
                   file_to_transcribe, transcript, summary, pdf_path, errors,
                   displayed, summarizerArg>>

\* lines 119 and 123, mutated: every upload is transcoded
NeedsConversionAlways(name) == TRUE

\* lines 119 and 123: the two endswith tests
NeedsConversion(name) == EndsWith(name, Mp3) \/ EndsWith(name, M4a)

\* lines 146-147, mutated: the handler shows the error and stops the script
HandleEnds(s, description) ==
    /\ errors' = [errors EXCEPT ![s] = Append(@, description)]
    /\ steps' = [steps EXCEPT ![s] = Append(@, "error")]
    /\ pc' = [pc EXCEPT ![s] = "done"]

\* lines 146-147: the handler of the try block
Handle(s, description) ==
    /\ errors' = [errors EXCEPT ![s] = Append(@, description)]
    /\ steps' = [steps EXCEPT ![s] = Append(@, "error")]
    /\ pc' = [pc EXCEPT ![s] = "display_logs"]

\* lines 121/125, mutated: an existing converted.wav is left as it is
ConvertedKeep(files, p) ==
    IF Exists(files, ConvertedPath) THEN files[ConvertedPath].content
    ELSE ToWav(files[p].content)

\* lines 120-121 / 124-125: what is written to converted.wav
Converted(files, p) == ToWav(files[p].content)

\* lines 119-126: mp3 and m4a uploads are transcoded to converted.wav
Convert(s) ==
    /\ pc[s] = "convert"
    /\ NeedsConversion(uploaded_file[s].name)
    /\ Exists(fs, audio_path[s])
    /\ fs' = WriteFile(fs, ConvertedPath, File(now, Converted(fs, audio_path[s])))
    /\ file_to_transcribe' = [file_to_transcribe EXCEPT ![s] = ConvertedPath]
    /\ steps' = [steps EXCEPT ![s] = Append(@, "convert")]
    /\ pc' = [pc EXCEPT ![s] = "transcribe"]
    /\ UNCHANGED <<now, active, runs, writes, logged, sweepVars, uploaded_file, button,
                   clicked, audio_path, transcript, summary, pdf_path, errors,
                   displayed, summarizerArg>>

\* lines 120-125 raise (ffmpeg missing, undecodable audio)
ConvertRaises(s) ==
    /\ pc[s] = "convert"
    /\ NeedsConversion(uploaded_file[s].name)
    /\ Handle(s, "Error: conversion failed")
    /\ UNCHANGED <<now, fs, active, runs, writes, logged, sweepVars, uploaded_file, button,
                   clicked, audio_path, file_to_transcribe, transcript, summary,
                   pdf_path, displayed, summarizerArg>>

\* lines 127-128: any other upload is transcribed as it was stored
NoConvert(s) ==
    /\ pc[s] = "convert"
    /\ ~NeedsConversion(uploaded_file[s].name)
    /\ file_to_transcribe' = [file_to_transcribe EXCEPT ![s] = audio_path[s]]
    /\ pc' = [pc EXCEPT ![s] = "transcribe"]
    /\ UNCHANGED <<now, fs, active, runs, steps, writes, logged, sweepVars, uploaded_file,
                   button, clicked, audio_path, transcript, summary, pdf_path,
                   errors, displayed, summarizerArg>>

\* lines 130-132
Transcribe(s) ==
    /\ pc[s] = "transcribe"
    /\ Exists(fs, file_to_transcribe[s])
    /\ transcript' = [transcript EXCEPT ![s] = TranscribeAudio(fs[file_to_transcribe[s]].content)]
    /\ steps' = [steps EXCEPT ![s] = Append(@, "transcribe")]
    /\ pc' = [pc EXCEPT ![s] = "summarize"]
    /\ UNCHANGED <<now, fs, active, runs, writes, logged, sweepVars, uploaded_file, button,
                   clicked, audio_path, file_to_transcribe, summary, pdf_path,
                   errors, displayed, summarizerArg>>

\* line 130 raises
TranscribeRaises(s) ==
    /\ pc[s] = "transcribe"
    /\ Handle(s, "Error: transcription failed")
    /\ UNCHANGED <<now, fs, active, runs, writes, logged, sweepVars, uploaded_file, button,
                   clicked, audio_path, file_to_transcribe, transcript, summary,
                   pdf_path, displayed, summarizerArg>>

\* lines 134-140: the summary is shown and the export button is put on the page
Summarize(s) ==
    /\ pc[s] = "summarize"
    /\ summarizerArg' = [summarizerArg EXCEPT ![s] = Truncate(transcript[s])]
    /\ summary' = [summary EXCEPT ![s] = summarize_text(transcript[s])]
    /\ button' = [button EXCEPT ![s] = TRUE]
    /\ steps' = [steps EXCEPT ![s] = Append(@, "summarize")]
    /\ pc' = [pc EXCEPT ![s] = IF clicked[s] THEN "export" ELSE "display_logs"]
    /\ UNCHANGED <<now, fs, active, runs, writes, logged, sweepVars, uploaded_file, clicked,
                   audio_path, file_to_transcribe, transcript, pdf_path, errors,
                   displayed>>

\* line 135 raises
SummarizeRaises(s) ==
    /\ pc[s] = "summarize"
    /\ Handle(s, "Error: summarization failed")
    /\ UNCHANGED <<now, fs, active, runs, writes, logged, sweepVars, uploaded_file, button,
                   clicked, audio_path, file_to_transcribe, transcript, summary,
                   pdf_path, displayed, summarizerArg>>

\* line 141, mutated: the report body is the text that was summarized
PdfBodyTruncated(s) == Truncate(transcript[s])

\* line 141: the transcript handed to export_summary_to_pdf
PdfBody(s) == transcript[s]

\* line 141: export_summary_to_pdf(summary, transcript)
ExportPdf(s) ==
    /\ pc[s] = "export"
    /\ LET p == PdfPath(now) IN
        /\ pdf_path' = [pdf_path EXCEPT ![s] = p]
        /\ fs' = WriteFile(fs, p, File(now, Render(summary[s], PdfBody(s), now)))
        /\ writes' = writes \cup {[cat |-> "pdf", at |-> now, path |-> p]}
    /\ steps' = [steps EXCEPT ![s] = Append(@, "export_pdf")]
    /\ pc' = [pc EXCEPT ![s] = "log_entry"]
    /\ UNCHANGED <<now, active, runs, logged, sweepVars, uploaded_file, button, clicked,
                   audio_path, file_to_transcribe, transcript, summary, errors,
                   displayed, summarizerArg>>

\* line 83 raises (the PDF cannot be written)
ExportRaises(s) ==
    /\ pc[s] = "export"
    /\ Handle(s, "Error: export failed")
    /\ UNCHANGED <<now, fs, active, runs, writes, logged, sweepVars, uploaded_file, button,
                   clicked, audio_path, file_to_transcribe, transcript, summary,
                   pdf_path, displayed, summarizerArg>>

\* line 142: log_entry(os.path.basename(pdf_path), summary)
LogEntry(s) ==
    /\ pc[s] = "log_entry"
    /\ fs' = AppendLog(fs, now, LogLines(now, Basename(pdf_path[s]), summary[s]))
    /\ steps' = [steps EXCEPT ![s] = Append(@, "log_entry")]
    /\ logged' = logged + 1
    /\ pc' = [pc EXCEPT ![s] = "download"]
    /\ UNCHANGED <<now, active, runs, writes, sweepVars, runVars>>

\* lines 143-144: the PDF is read back for the download button
Download(s) ==
    /\ pc[s] = "download"
    /\ Exists(fs, pdf_path[s])
    /\ steps' = [steps EXCEPT ![s] = Append(@, "download")]
    /\ pc' = [pc EXCEPT ![s] = "display_logs"]
    /\ UNCHANGED <<now, fs, active, runs, writes, logged, sweepVars, runVars>>

\* lines 94-101: what display_logs puts on the page
LogView(files) ==
    IF Exists(files, LogPath)
    THEN [kind |-> "text_area", text |-> files[LogPath].content]
    ELSE [kind |-> "info", text |-> <<>>]

\* lines 149-152: the log viewer; the script run ends and its locals are gone
DisplayLogs(s) ==
    /\ pc[s] = "display_logs"
    /\ displayed' = [displayed EXCEPT ![s] = LogView(fs)]
    /\ steps' = [steps EXCEPT ![s] = <<>>]
    /\ pc' = [pc EXCEPT ![s] = "done"]
    /\ clicked' = [clicked EXCEPT ![s] = FALSE]
    /\ FreshLocals(s)
    /\ UNCHANGED <<now, fs, active, runs, writes, logged, sweepVars, uploaded_file, button>>

\* the clock advances
Tick ==
    /\ now < Now0 + MaxTicks
    /\ now' = now + 1
    /\ UNCHANGED <<fs, active, runs, pc, steps, writes, logged, sweepVars, runVars>>

Pipeline(s) ==
    \/ StartRun(s)
    \/ NoUploadedFile(s)
    \/ WriteUpload(s)
    \/ Convert(s)
    \/ ConvertRaises(s)
    \/ NoConvert(s)
    \/ Transcribe(s)
    \/ TranscribeRaises(s)
    \/ Summarize(s)
    \/ SummarizeRaises(s)
    \/ ExportPdf(s)
    \/ ExportRaises(s)
    \/ LogEntry(s)
    \/ Download(s)
    \/ DisplayLogs(s)

(* --------------------------- the application -------------------------- *)

\* an upload of an earlier day, left under outputs/audio
OldAudio == Join(AudioDir, Name("input_", Strftime(Now0 - (DefaultDays + 1) * TicksPerDay), Wav))

InitFs == (OldAudio :> File(Now0 - (DefaultDays + 1) * TicksPerDay, Audio("upload", 1)))

NoSession(v) == [s \in Sessions |-> v]

InitRun ==
    /\ uploaded_file = NoSession(NoUpload)
    /\ button = NoSession(FALSE)
    /\ clicked = NoSession(FALSE)
    /\ audio_path = NoSession(NoPath)
    /\ file_to_transcribe = NoSession(NoPath)
    /\ transcript = NoSession(<<>>)
    /\ summary = NoSession(<<>>)
    /\ pdf_path = NoSession(NoPath)
    /\ errors = NoSession(<<>>)
    /\ displayed = NoSession(NoDisplay)
    /\ summarizerArg = NoSession(<<>>)

InitSweepVars ==
    /\ folder = NoSession(NoPath)
    /\ cutoff = NoSession(0)
    /\ pending = NoSession({})
    /\ path = NoSession(NoPath)
    /\ fsAtCall = NoSession(<<>>)
    /\ removed = NoSession({})

Init ==
    /\ now = Now0
    /\ fs = InitFs
    /\ active \in {{1}, Sessions}
    /\ runs = 0
    /\ pc = NoSession("idle")
    /\ steps = NoSession(<<>>)
    /\ writes = {}
    /\ logged = 0
    /\ days = NoSession(DefaultDays)
    /\ InitSweepVars
    /\ InitRun

Next ==
    \/ Tick
    \/ \E s \in Sessions : Sweep(s) \/ Pipeline(s)

Spec == Init /\ [][Next]_vars

(* ------------- the retention sweep on arbitrary directories ----------- *)

\* modification times on both sides of every cutoff the sweep is called with
SweepMtimes == {Now0 - d * TicksPerDay - e : d \in 0..MaxDays, e \in {0, 1}}

Archive == Join(AudioDir, Name("archive", NoTs, <<>>))

\* outputs/audio with two files of any age and a subdirectory that holds an
\* old file
SweepFs(ma, mb) ==
    LET old == Now0 - (MaxDays + 1) * TicksPerDay IN
    (Join(AudioDir, Name("a", NoTs, Wav)) :> File(ma, Audio("upload", 1)))
    @@ (Join(AudioDir, Name("b", NoTs, Wav)) :> File(mb, Audio("upload", 2)))
    @@ (Archive :> Directory(old))
    @@ (Join(Archive, Name("nested", NoTs, Wav)) :> File(old, Audio("upload", 2)))

\* the sessions that are connected are about to call cleanup_old_files (line
\* 30); the first passes any max_age, the second the default
InitSweep ==
    /\ now = Now0
    /\ \E ma \in SweepMtimes, mb \in SweepMtimes : fs = SweepFs(ma, mb)
    /\ active \in {{1}, Sessions}
    /\ runs = Cardinality(active)
    /\ pc = [s \in Sessions |-> IF s \in active THEN "cleanup_audio" ELSE "idle"]
    /\ steps = NoSession(<<>>)
    /\ writes = {}
    /\ logged = 0
    /\ \E d \in 0..MaxDays : days = [s \in Sessions |-> IF s = 1 THEN d ELSE DefaultDays]
    /\ InitSweepVars
    /\ InitRun

NextSweep == \E s \in Sessions : Sweep(s)

SpecSweep == InitSweep /\ [][NextSweep]_vars

(* ----------------- summarize_text on arbitrary transcripts ------------ *)

SummarizeLens ==
    {0, 1, TruncateLen - 1, TruncateLen, TruncateLen + 1, TruncateLen + ShortLen,
     5 * TruncateLen}

Transcripts == {Text(n, seed) : n \in SummarizeLens, seed \in 0..MaxSeed}

\* session 1 has stored a wav upload and the Transcription Service has
\* returned some transcript for it (line 130); line 135 is next
InitSummarize ==
    LET up == [name |-> <<"a", ".", "w", "a", "v">>, data |-> Audio("upload", 1)]
        p == AudioPath(Now0, up.name)
    IN
    /\ now = Now0
    /\ fs = (p :> File(Now0, up.data))
    /\ active = {1}
    /\ runs = 1
    /\ pc = [s \in Sessions |-> IF s = 1 THEN "summarize" ELSE "idle"]
    /\ steps = [s \in Sessions |->
                  IF s = 1 THEN <<"cleanup", "cleanup", "write_upload", "transcribe">>
                  ELSE <<>>]
    /\ writes = {[cat |-> "audio", at |-> Now0, path |-> p]}
    /\ logged = 0
    /\ days = NoSession(DefaultDays)
    /\ InitSweepVars
    /\ uploaded_file = [s \in Sessions |-> IF s = 1 THEN up ELSE NoUpload]
    /\ button = NoSession(FALSE)
    /\ clicked = NoSession(FALSE)
    /\ audio_path = [s \in Sessions |-> IF s = 1 THEN p ELSE NoPath]
    /\ file_to_transcribe = [s \in Sessions |-> IF s = 1 THEN p ELSE NoPath]
    /\ \E t \in Transcripts : transcript = [s \in Sessions |-> IF s = 1 THEN t ELSE <<>>]
    /\ summary = NoSession(<<>>)
    /\ pdf_path = NoSession(NoPath)
    /\ errors = NoSession(<<>>)
    /\ displayed = NoSession(NoDisplay)
    /\ summarizerArg = NoSession(<<>>)

NextSummarize == \E s \in Sessions : Summarize(s) \/ SummarizeRaises(s)

SpecSummarize == InitSummarize /\ [][NextSummarize]_vars

(* ============================== properties ============================ *)

\* the second a clock reading falls in
ClockSecond(t) == t \div TicksPerSecond

\* whether the running script run has done the step
Did(s, step) == \E i \in 1..Len(steps[s]) : steps[s][i] = step

\* the last step the running script run has done
LastStep(s) == IF steps[s] = <<>> THEN "" ELSE steps[s][Len(steps[s])]

\* the steps of the running script run after its two retention sweeps
RunSteps(s) == SelectSeq(steps[s], LAMBDA x : x # "cleanup")

\* the lines of the activity log, none when the file does not exist
LogOf(files) == IF LogPath \in DOMAIN files THEN files[LogPath].content ELSE <<>>

\* the paths of `after' that `before' did not hold or held with another node
Written(before, after) ==
    {p \in DOMAIN after : p \notin DOMAIN before \/ after[p] # before[p]}

\* the audio and PDF artifacts
Artifacts(files) == {p \in DOMAIN files : Dirname(p) \in {AudioDir, PdfDir}}

\* a regular file directly inside the swept folder, older than now - days,
\* as it was when cleanup_old_files was called
Doomed(s, p) ==
    /\ Dirname(p) = folder[s]
    /\ fsAtCall[s][p].kind = "file"
    /\ fsAtCall[s][p].mtime < now - days[s] * SecondsPerDay * TicksPerSecond

\* C1: when cleanup_old_files(folder, days) has returned, every regular file
\* directly inside the folder that was older than now - days is gone; every
\* other path (a direct child at or after the cutoff, a subdirectory, a file
\* inside a subdirectory) was not removed by this sweep and, where it exists,
\* is unchanged; with no other session sweeping it does exist.
C1_SweepPostcondition ==
    \A s \in Sessions :
        pc[s] = "returned" =>
            \A p \in DOMAIN fsAtCall[s] :
                IF Doomed(s, p) THEN p \notin DOMAIN fs
                ELSE /\ p \notin removed[s]
                     /\ p \in DOMAIN fs => fs[p] = fsAtCall[s][p]
                     /\ active = {s} => p \in DOMAIN fs

\* a sweep of outputs/audio has returned: it removed a file, it kept a direct
\* child whose modification time is exactly the cutoff, and the subdirectory
\* and the file inside it are still there
C1_Witness ==
    \E s \in Sessions :
        /\ pc[s] = "returned"
        /\ folder[s] = AudioDir
        /\ removed[s] # {}
        /\ \E p \in DOMAIN fs :
            /\ Dirname(p) = AudioDir
            /\ fs[p].kind = "file"
            /\ fs[p].mtime = now - days[s] * SecondsPerDay * TicksPerSecond
        /\ Archive \in DOMAIN fs
        /\ Join(Archive, Name("nested", NoTs, Wav)) \in DOMAIN fs

\* C2: a sweep in which the deletion of one expired file failed (the file
\* vanished between the listing and its deletion) does not abort: when it has
\* ended, every expired file of its folder has been evicted.
C2_FaultIsolation ==
    \A s \in Sessions :
        pc[s] \in {"returned", "crashed"} =>
            \A p \in DOMAIN fsAtCall[s] : Doomed(s, p) => p \notin DOMAIN fs

\* C3: the summarizer is invoked on exactly the first 1000 characters of a
\* text longer than 1000 and on a text of at most 1000 characters unchanged,
\* so summarize_text(t) = summarize_text(t[:1000]).
C3_Truncation ==
    \A s \in Sessions :
        LastStep(s) = "summarize" =>
            LET t == transcript[s]
                head == IF Len(t) > 1000 THEN SubSeq(t, 1, 1000) ELSE t
            IN /\ summarizerArg[s] = head
               /\ summary[s] = Summarizer(head)
               /\ summary[s] = summarize_text(head)

\* a 5000-character transcript has been summarized from its first 1000
C3_Witness ==
    \E s \in Sessions :
        /\ LastStep(s) = "summarize"
        /\ Len(transcript[s]) = 5000
        /\ Len(summarizerArg[s]) = 1000

\* the entry log_entry(filename, text) writes at clock reading t
EntryOf(t, filename, text) ==
    << [at |-> ClockSecond(t), label |-> " - Generated: ", filename |-> filename],
       [label |-> "Summary Preview: ",
        preview |-> SubSeq(text, 1, IF Len(text) < 150 THEN Len(text) ELSE 150),
        tail |-> "..."],
       [label |-> ""] >>

\* the log is absent exactly before the first log_entry call and holds one
\* three-line entry per call
C4_LogState ==
    LET log == LogOf(fs) IN
    /\ logged = 0 <=> LogPath \notin DOMAIN fs
    /\ Len(log) = 3 * logged
    /\ \A k \in 0..(logged - 1) :
        /\ log[3 * k + 1].label = " - Generated: "
        /\ log[3 * k + 2].label = "Summary Preview: "
        /\ Len(log[3 * k + 2].preview) <= 150
        /\ log[3 * k + 2].tail = "..."
        /\ log[3 * k + 3] = [label |-> ""]

\* a step leaves the log as it is unless it is a log_entry call, which appends
\* that call's entry; display_logs shows the absent signal before the first
\* call and the whole log after it
C4_LogStep ==
    LET old == LogOf(fs)
        new == LogOf(fs')
    IN
    /\ Len(new) >= Len(old) /\ SubSeq(new, 1, Len(old)) = old
    /\ \A s \in Sessions :
        pc[s] = "log_entry" /\ pc'[s] # pc[s] =>
            /\ new = old \o EntryOf(now, Basename(pdf_path[s]), summary[s])
            /\ LogPath \in DOMAIN fs'
    /\ new # old => \E s \in Sessions : pc[s] = "log_entry" /\ pc'[s] # pc[s]
    /\ \A s \in Sessions :
        pc[s] = "display_logs" /\ pc'[s] # pc[s] =>
            displayed'[s] = IF logged = 0 THEN [kind |-> "info", text |-> <<>>]
                            ELSE [kind |-> "text_area", text |-> old]

\* C4: reading the log before any log_entry call yields the absent signal; the
\* first call creates the log; after n calls it holds exactly n entries in call
\* order, each a "Generated: <filename>" line, a "Summary Preview:" line with
\* at most the first 150 characters of that call's summary and "...", and a
\* blank line; a later append never changes or removes an earlier entry.
C4_Log == [](C4_LogState) /\ [][C4_LogStep]_vars

\* two calls have been logged and a preview has been cut to 150 characters
C4_Witness ==
    /\ logged = 2
    /\ Len(LogOf(fs)) = 6
    /\ \E k \in {2, 5} : Len(LogOf(fs)[k].preview) = 150

ServiceFailures ==
    {"Error: conversion failed", "Error: transcription failed",
     "Error: summarization failed"}

\* a run shows at most one error; once it has, the error is the last thing the
\* pipeline did, the message describes the step that failed, the upload is
\* still on disk, and after a service failure no summary, PDF, log entry or
\* download was produced
C6_ErrorState ==
    \A s \in Sessions :
        /\ Len(errors[s]) <= 1
        /\ Did(s, "error") <=> Len(errors[s]) = 1
        /\ Len(errors[s]) = 1 =>
            LET rs == RunSteps(s)
                before == rs[Len(rs) - 1]
                message == errors[s][1]
            IN
            /\ pc[s] = "display_logs"
            /\ LastStep(s) = "error"
            /\ Len(rs) >= 2
            /\ before = "write_upload" => message \in ServiceFailures \ {"Error: summarization failed"}
            /\ before = "convert" => message = "Error: transcription failed"
            /\ before = "transcribe" => message = "Error: summarization failed"
            /\ before = "summarize" => message = "Error: export failed"
            /\ audio_path[s] \in DOMAIN fs
            /\ message \in ServiceFailures =>
                /\ ~Did(s, "summarize") /\ ~Did(s, "export_pdf")
                /\ ~Did(s, "log_entry") /\ ~Did(s, "download")
                /\ summary[s] = <<>> /\ pdf_path[s] = NoPath

\* the step that shows the error writes nothing, and the only step that
\* follows it shows the log viewer
C6_ErrorStep ==
    \A s \in Sessions :
        /\ Len(errors'[s]) > Len(errors[s]) => fs' = fs /\ logged' = logged
        /\ Len(errors[s]) = 1 /\ pc'[s] # pc[s] =>
            /\ pc'[s] = "done"
            /\ displayed'[s] = LogView(fs)
            /\ displayed'[s].kind \in {"info", "text_area"}
            /\ fs' = fs

\* C6: a failure of conversion, transcription or summarization is caught and
\* ends the interaction with exactly one error message that carries the
\* failure's description; no later pipeline step runs, the stored upload stays
\* on disk, and the log viewer is still shown.
C6_ErrorHandling == [](C6_ErrorState) /\ [][C6_ErrorStep]_vars

\* the transcription of a transcoded upload has failed
C6_Witness ==
    \E s \in Sessions :
        /\ errors[s] = <<"Error: transcription failed">>
        /\ Did(s, "convert")
        /\ audio_path[s] \in DOMAIN fs
        /\ pc[s] = "display_logs"

\* an export follows a press of the button and a summary; a log entry follows
\* the export; the download follows the log entry
C7_ExportState ==
    \A s \in Sessions :
        \A i \in 1..Len(steps[s]) :
            /\ steps[s][i] = "export_pdf" =>
                clicked[s] /\ i > 1 /\ steps[s][i - 1] = "summarize"
            /\ steps[s][i] = "log_entry" => i > 1 /\ steps[s][i - 1] = "export_pdf"
            /\ steps[s][i] = "download" => i > 1 /\ steps[s][i - 1] = "log_entry"

\* a step that writes under outputs/pdf is the export of a session that pressed
\* the button: it writes one PDF, rendered from that session's summary and its
\* whole transcript, and no log entry; a step that changes the log follows
\* such an export: it appends the entry of that PDF's file name and that
\* summary, and writes no PDF
C7_ExportStep ==
    LET pdfs == {p \in Written(fs, fs') : Dirname(p) = PdfDir}
        old == LogOf(fs)
        new == LogOf(fs')
    IN
    /\ pdfs # {} =>
        \E s \in Sessions :
            /\ pc[s] = "export" /\ clicked[s] /\ LastStep(s) = "summarize"
            /\ pdfs = {pdf_path'[s]}
            /\ fs'[pdf_path'[s]].kind = "file"
            /\ fs'[pdf_path'[s]].content.summary = Normalize(summary[s])
            /\ fs'[pdf_path'[s]].content.transcript = Normalize(transcript[s])
            /\ new = old
    /\ new # old =>
        \E s \in Sessions :
            /\ LastStep(s) = "export_pdf"
            /\ pdf_path[s] \in DOMAIN fs
            /\ Dirname(pdf_path[s]) = PdfDir
            /\ new = old \o EntryOf(now, Basename(pdf_path[s]), summary[s])
            /\ pdfs = {}
    /\ \A s \in Sessions :
        LastStep(s)' = "download" /\ steps'[s] # steps[s] =>
            LastStep(s) = "log_entry" /\ pdf_path[s] \in DOMAIN fs

\* C7: no PDF and no log entry is written until the export is requested; each
\* export renders (summary, whole transcript) into exactly one PDF under
\* outputs/pdf and then appends exactly one log entry that names that PDF and
\* previews that summary; the PDF is offered for download after both.
C7_Export == [](C7_ExportState) /\ [][C7_ExportStep]_vars

\* a transcript longer than the summarizer's cap has been exported, logged and
\* offered for download
C7_Witness ==
    \E s \in Sessions :
        /\ LastStep(s) = "download"
        /\ Len(transcript[s]) > 1000
        /\ pdf_path[s] \in DOMAIN fs
        /\ Len(fs[pdf_path[s]].content.transcript) > 0
        /\ logged >= 1

\* C8: two writes into the same category issued in different clock seconds go
\* to different paths (input_<second>.<ext> under outputs/audio,
\* summary_<second>.pdf under outputs/pdf), so two writes collide only within
\* one second.
C8_Naming ==
    /\ \A w \in writes :
        LET f == Basename(w.path) IN
        /\ f.ts = ClockSecond(w.at)
        /\ w.cat = "audio" => Dirname(w.path) = AudioDir /\ f.prefix = "input_"
        /\ w.cat = "pdf" => Dirname(w.path) = PdfDir /\ f.prefix = "summary_" /\ f.ext = Pdf
    /\ \A w1 \in writes, w2 \in writes :
        w1.cat = w2.cat /\ ClockSecond(w1.at) # ClockSecond(w2.at) => w1.path # w2.path

\* two uploads of the same extension were stored in different seconds
C8_Witness ==
    \E w1 \in writes, w2 \in writes :
        /\ w1.cat = "audio" /\ w2.cat = "audio"
        /\ ClockSecond(w1.at) # ClockSecond(w2.at)
        /\ Basename(w1.path).ext = Basename(w2.path).ext

\* the step is session s removing p in its sweep of p's directory
SweptBy(s, p) == pc[s] = "remove" /\ path[s] = p /\ folder[s] = Dirname(p)

\* C9 as stated: an audio or PDF artifact keeps the content it was created
\* with for as long as it exists, and only the age-based sweep of its
\* directory removes it.
C9_NeverRewritten ==
    [][\A p \in Artifacts(fs) :
          IF p \in DOMAIN fs' THEN fs'[p].content = fs[p].content
          ELSE \E s \in Sessions : SweptBy(s, p)]_vars

\* C9, amended: an artifact keeps its content unless an upload or export
\* issued in the clock second of its own write goes to the same path and
\* replaces it; only the age-based sweep of its directory removes it, and only
\* when the artifact is older than the cutoff.
C9_RewrittenOnlyInTheSameSecond ==
    [][\A p \in Artifacts(fs) :
          IF p \in DOMAIN fs'
          THEN \/ fs'[p].content = fs[p].content
               \/ /\ ClockSecond(now) = ClockSecond(fs[p].mtime)
                  /\ \E s \in Sessions :
                        /\ pc[s] \in {"uploader", "export"}
                        /\ pc'[s] # pc[s]
                        /\ p \in {audio_path'[s], pdf_path'[s]}
          ELSE \E s \in Sessions : SweptBy(s, p) /\ fs[p].mtime < cutoff[s]]_vars

\* an upload has replaced the upload another write stored within the same
\* second, and the sweep has removed the old upload
C9_Witness ==
    /\ OldAudio \notin DOMAIN fs
    /\ \E w1 \in writes, w2 \in writes :
        /\ w1 # w2
        /\ w1.path = w2.path
        /\ w1.path \in DOMAIN fs

\* C10: with a single session connected, every transcript is the transcript
\* of that session's own upload (two sessions can break this: see the
\* witness).
C10_OwnTranscript ==
    active = {1} =>
        \A s \in Sessions :
            Did(s, "transcribe") =>
                transcript[s] = TranscribeAudio(uploaded_file[s].data)

\* both sessions have transcoded their own upload, stored under different
\* paths, and the transcript of one is that of the other's recording
C10_Witness ==
    \E s \in Sessions, r \in Sessions :
        /\ s # r
        /\ Did(s, "convert") /\ Did(r, "convert")
        /\ audio_path[s] # audio_path[r]
        /\ fs[audio_path[s]].content = uploaded_file[s].data
        /\ Did(s, "transcribe")
        /\ transcript[s] = TranscribeAudio(uploaded_file[r].data)
        /\ transcript[s] # TranscribeAudio(uploaded_file[s].data)

====
